---- MODULE Spec2Model ----
(***************************************************************************)
(* Model of AnthropicHandler (src/src/api/providers/anthropic.ts): the     *)
(* incremental message diff (getNewMessages), the cache-boundary           *)
(* annotation (prepareCachedMessages / makeMessageEphemeral), the          *)
(* per-model request dispatch of createMessage and the commit              *)
(* (updateCachedMessages).                                                 *)
(*                                                                         *)
(* createMessage is an async function: the code between two awaits runs    *)
(* atomically on the single JavaScript thread, so each action below is one *)
(* such run: from the call to the first await, from the resolution of the  *)
(* confirmation dialog to the transport await, and from the settlement of  *)
(* the transport promise to the return or throw.                           *)
(***************************************************************************)
EXTENDS Integers, Sequences, FiniteSets, TLC

\* Longest conversation the caller supplies.
MaxConv == 2

\* The call slots of one handler: createMessage invocations that may be live.
Calls == {1, 2}

----------------------------------------------------------------------------
\* Messages (Anthropic.Messages.MessageParam).  content is a bare string or an
\* array of content blocks; cache_control "none" stands for an absent field.

NoMark == "none"
Ephemeral == "ephemeral"

TextBlock(t) == [type |-> "text", text |-> t, cache_control |-> NoMark]
OtherBlock(t) == [type |-> "tool_result", text |-> t, cache_control |-> NoMark]

StringContent(s) == [isArray |-> FALSE, text |-> s, blocks |-> <<>>]
ArrayContent(bs) == [isArray |-> TRUE, text |-> "", blocks |-> bs]

\* The messages the caller builds conversations from: a user message with a
\* bare string, an assistant message with one text block, a user message with
\* two blocks of different types.
MessagePool ==
    { [role |-> "user", content |-> StringContent("hi")],
      [role |-> "assistant", content |-> ArrayContent(<<TextBlock("hello")>>)],
      [role |-> "user",
       content |-> ArrayContent(<<OtherBlock("result"), TextBlock("how are you")>>)] }

SeqsUpTo(S, n) == UNION { [1..k -> S] : k \in 0..n }

Conversations == SeqsUpTo(MessagePool, MaxConv)

SystemPrompts == {"You are Claude Dev"}

ToolList == <<"read_file">>

----------------------------------------------------------------------------
\* The model catalog (shared/api: anthropicModels, anthropicDefaultModelId).

anthropicDefaultModelId == "claude-3-5-sonnet-20240620"

anthropicModels ==
    [ m \in { "claude-3-5-sonnet-20240620", "claude-3-opus-20240229",
              "claude-3-sonnet-20240229", "claude-3-haiku-20240307" } |->
        [ maxTokens |-> IF m = "claude-3-5-sonnet-20240620" THEN 8192 ELSE 4096,
          supportsCaching |-> m # "claude-3-sonnet-20240229",
          requiredBetaHeader |->
              IF m \in {"claude-3-5-sonnet-20240620", "claude-3-haiku-20240307"}
              THEN "prompt-caching-2024-07-31" ELSE "undefined" ] ]

\* The values options.apiModelId may hold: a catalog id, an unknown id, absent.
ApiModelIds == DOMAIN anthropicModels \cup {"unknown-model-x", "undefined"}

\* getModel that falls back only when no id is configured: an unknown id is
\* returned as it is, with the default's descriptor.
getModel_KeepsUnknownId(opts) ==
    IF opts.apiModelId # "undefined"
    THEN [id |-> opts.apiModelId,
          info |-> IF opts.apiModelId \in DOMAIN anthropicModels
                   THEN anthropicModels[opts.apiModelId]
                   ELSE anthropicModels[anthropicDefaultModelId]]
    ELSE [id |-> anthropicDefaultModelId, info |-> anthropicModels[anthropicDefaultModelId]]

\* getModel(): the configured id when it is in the catalog, else the default.
getModel(opts) ==
    IF opts.apiModelId # "undefined" /\ opts.apiModelId \in DOMAIN anthropicModels
    THEN [id |-> opts.apiModelId, info |-> anthropicModels[opts.apiModelId]]
    ELSE [id |-> anthropicDefaultModelId, info |-> anthropicModels[anthropicDefaultModelId]]

\* The provider factory.  The values configuration.apiProvider may hold: the
\* identifiers the switch names, an identifier it does not name, absent.
ProviderIds == {"anthropic", "openai", "ollama", "unrecognized", "undefined"}

\* buildApiHandler that throws in its default branch.
buildApiHandler_ThrowsOnUnknown(provider) ==
    IF provider = "anthropic" THEN "AnthropicHandler"
    ELSE IF provider = "openai" THEN "OpenAiHandler"
    ELSE IF provider = "ollama" THEN "AnthropicHandler"
    ELSE "none"

\* buildApiHandler(configuration): the class of the handler the switch on
\* apiProvider constructs; "ollama" shares the default branch.
buildApiHandler(provider) ==
    IF provider = "anthropic" THEN "AnthropicHandler"
    ELSE IF provider = "openai" THEN "OpenAiHandler"
    ELSE "AnthropicHandler"

\* The copy of buildApiHandler that has the "anthropic" case and the default
\* branch only.
buildApiHandlerAnthropicOnly(provider) ==
    IF provider = "anthropic" THEN "AnthropicHandler"
    ELSE "AnthropicHandler"

----------------------------------------------------------------------------
\* Array helpers with JavaScript's semantics (0-based indices).

\* Array.prototype.slice(start) for start >= 0.
slice(s, start) ==
    IF start >= Len(s) THEN <<>> ELSE SubSeq(s, start + 1, Len(s))

\* Array.prototype.lastIndexOf: the greatest 0-based index holding v, else -1.
lastIndexOf(s, v) ==
    LET hits == { i \in 1..Len(s) : s[i] = v }
    IN  IF hits = {} THEN -1
        ELSE (CHOOSE i \in hits : \A j \in hits : j <= i) - 1

\* getNewMessages with the diff started at the last cached message instead of
\* the one after it.
getNewMessages_FromLastCached(cached, msgs) ==
    LET lastCachedIndex == Len(cached) - 1
    IN  slice(msgs, IF lastCachedIndex < 0 THEN 0 ELSE lastCachedIndex)

\* getNewMessages(messages): the part of messages after the cached length.
getNewMessages(cached, msgs) ==
    LET lastCachedIndex == Len(cached) - 1
    IN  slice(msgs, lastCachedIndex + 1)

\* makeMessageEphemeral that keeps the text blocks only.
makeMessageEphemeral_TextOnly(message) ==
    [message EXCEPT !.content =
        IF message.content.isArray
        THEN ArrayContent(
                 LET texts == SelectSeq(message.content.blocks,
                                        LAMBDA b : b.type = "text")
                 IN  [i \in DOMAIN texts |->
                         [texts[i] EXCEPT !.cache_control = Ephemeral]])
        ELSE ArrayContent(<<[type |-> "text", text |-> message.content.text,
                             cache_control |-> Ephemeral]>>)]

\* makeMessageEphemeral(message): every block marked; a string becomes one
\* marked text block.
makeMessageEphemeral(message) ==
    [message EXCEPT !.content =
        IF message.content.isArray
        THEN ArrayContent([i \in DOMAIN message.content.blocks |->
                 [message.content.blocks[i] EXCEPT !.cache_control = Ephemeral]])
        ELSE ArrayContent(<<[type |-> "text", text |-> message.content.text,
                             cache_control |-> Ephemeral]>>)]

\* prepareCachedMessages that looks for the last user message among the new
\* messages only.
prepareCachedMessages_LastOfNew(cached, newMsgs) ==
    LET lastUserMsgIndex ==
            lastIndexOf([i \in DOMAIN newMsgs |-> newMsgs[i].role], "user")
    IN  IF lastUserMsgIndex # -1
        THEN cached \o [newMsgs EXCEPT ![lastUserMsgIndex + 1] =
                           makeMessageEphemeral(newMsgs[lastUserMsgIndex + 1])]
        ELSE cached \o newMsgs

\* prepareCachedMessages(newMessages): cachedMessages followed by newMessages,
\* the last user message replaced by its ephemeral form.
prepareCachedMessages(cached, newMsgs) ==
    LET preparedMessages == cached \o newMsgs
        lastUserMsgIndex ==
            lastIndexOf([i \in DOMAIN preparedMessages |-> preparedMessages[i].role], "user")
    IN  IF Len(preparedMessages) > 0 /\ lastUserMsgIndex # -1
        THEN [preparedMessages EXCEPT ![lastUserMsgIndex + 1] =
                 makeMessageEphemeral(preparedMessages[lastUserMsgIndex + 1])]
        ELSE preparedMessages

\* updateCachedMessages that stores the new messages in place of the old ones.
updateCachedMessages_Replaces(cached, newMsgs) == newMsgs

\* updateCachedMessages that puts the new messages in front.
updateCachedMessages_Prepends(cached, newMsgs) == newMsgs \o cached

\* updateCachedMessages(newMessages): the new value of cachedMessages.
updateCachedMessages(cached, newMsgs) == cached \o newMsgs

\* getPromptCachingHeaders(modelId): the anthropic-beta header, or undefined.
getPromptCachingHeaders(modelId) ==
    IF modelId \in {"claude-3-5-sonnet-20240620", "claude-3-haiku-20240307"}
    THEN "prompt-caching-2024-07-31"
    ELSE "undefined"

CachingPath == "beta.promptCaching.messages.create"
PlainPath == "messages.create"

\* The switch with the opus case left out.
TransportPath_NoOpus(modelId) ==
    IF modelId \in {"claude-3-5-sonnet-20240620", "claude-3-haiku-20240307"}
    THEN CachingPath ELSE PlainPath

\* The switch on modelId in createMessage: which client method is called.
TransportPath(modelId) ==
    IF modelId \in { "claude-3-5-sonnet-20240620", "claude-3-opus-20240229",
                     "claude-3-haiku-20240307" }
    THEN CachingPath ELSE PlainPath

\* The system field of the two calls.
SystemBlock(modelId, sp) ==
    IF TransportPath(modelId) = CachingPath
    THEN [text |-> sp, type |-> "text", cache_control |-> Ephemeral]
    ELSE [text |-> sp, type |-> "text", cache_control |-> NoMark]

\* requestData.messages built from the new messages alone.
RequestMessages_NewOnly(modelId, cached, newMsgs) ==
    prepareCachedMessages(<<>>, newMsgs)

\* The messages field of requestData, spread unchanged into both calls.
RequestMessages(modelId, cached, newMsgs) == prepareCachedMessages(cached, newMsgs)

\* The argument of the client call made by createMessage ({...requestData,
\* system: [...]}) with the method it goes to and the headers passed along.
\* temperature is 0.2, kept in tenths.
BuildRequest(opts, cached, sp, newMsgs, tools) ==
    LET modelId == getModel(opts).id
    IN  [ path |-> TransportPath(modelId),
          model |-> modelId,
          max_tokens |-> getModel(opts).info.maxTokens,
          temperatureTenths |-> 2,
          system |-> SystemBlock(modelId, sp),
          messages |-> RequestMessages(modelId, cached, newMsgs),
          tools |-> tools,
          tool_choice |-> "auto",
          headers |-> IF TransportPath(modelId) = CachingPath
                      THEN getPromptCachingHeaders(modelId) ELSE "undefined" ]

NoRequest ==
    [ path |-> "none", model |-> "", max_tokens |-> 0, temperatureTenths |-> 0,
      system |-> [text |-> "", type |-> "text", cache_control |-> NoMark],
      messages |-> <<>>, tools |-> <<>>, tool_choice |-> "", headers |-> "undefined" ]

----------------------------------------------------------------------------
\* Outcomes of createMessage.

TransportErrors == {"overloaded_error", "rate_limit_error"}
CancelError == "API request cancelled by user"
DialogResults == {"Proceed", "Cancel", "undefined"}
Response == "msg_01"

Pending == [kind |-> "pending", error |-> "", message |-> ""]
Returned(m) == [kind |-> "return", error |-> "", message |-> m]
Thrown(e) == [kind |-> "throw", error |-> e, message |-> ""]

----------------------------------------------------------------------------
VARIABLES
    apiProvider,     \* configuration.apiProvider, as given to buildApiHandler
    handler,         \* the handler buildApiHandler returned, and which copy built it
    options,         \* this.options: apiModelId, showConfirmationDialog
    cachedMessages,  \* this.cachedMessages
    pc,              \* per call: "idle", "confirm", "transport", "done"
    systemPrompt,    \* per call: the systemPrompt argument
    messages,        \* per call: the messages argument
    newMessages,     \* per call: const newMessages
    request,         \* per call: the request handed to the transport
    outcome,         \* per call: what createMessage returned or threw
    hist,            \* per call: history of the turn (what the claims refer to)
    latestConv,      \* history: the conversation supplied on the latest turn
    extending,       \* history: every conversation extended the one before it
    lastFailed,      \* history: the latest turn threw, and its newMessages
    committedCount   \* history: the sum of the message counts of all commits

vars == << apiProvider, handler, options, cachedMessages, pc, systemPrompt, messages, newMessages,
           request, outcome, hist, latestConv, extending, lastFailed,
           committedCount >>

IsPrefix(p, s) == Len(p) <= Len(s) /\ SubSeq(s, 1, Len(p)) = p

\* What a turn's history records: CacheState when the call was made and when
\* its request was built, the transport calls, commits and log entries made, the
\* dialog's result, the rejection the transport raised, and whether the turn
\* retries the failed turn before it (with that turn's newMessages, system
\* prompt and request).
NoHist ==
    [ cacheAtStart |-> <<>>, priorAtSend |-> <<>>, transportCalls |-> 0,
      commits |-> 0, logs |-> 0, dialog |-> "", raised |-> "",
      retry |-> FALSE, failedNew |-> <<>>, failedPrompt |-> "",
      failedRequest |-> NoRequest ]

NotFailed == [failed |-> FALSE, new |-> <<>>, prompt |-> "", request |-> NoRequest]
Failed(c) ==
    [failed |-> TRUE, new |-> newMessages[c], prompt |-> systemPrompt[c],
     request |-> request[c]]

Init ==
    /\ apiProvider = "anthropic"
    /\ handler = [variant |-> buildApiHandler(apiProvider), by |-> "buildApiHandler"]
    /\ options \in [ apiModelId : ApiModelIds, showConfirmationDialog : BOOLEAN ]
    /\ cachedMessages = <<>>
    /\ pc = [c \in Calls |-> "idle"]
    /\ systemPrompt = [c \in Calls |-> ""]
    /\ messages = [c \in Calls |-> <<>>]
    /\ newMessages = [c \in Calls |-> <<>>]
    /\ request = [c \in Calls |-> NoRequest]
    /\ outcome = [c \in Calls |-> Pending]
    /\ hist = [c \in Calls |-> NoHist]
    /\ latestConv = <<>>
    /\ extending = TRUE
    /\ lastFailed = NotFailed
    /\ committedCount = 0

\* What the caller passes as messages: its previous conversation extended by
\* any messages (or resent as it is), or cut back to one of its prefixes.
CallerConversations(prev) ==
    { conv \in Conversations : IsPrefix(prev, conv) \/ IsPrefix(conv, prev) }

InFlight(c) == pc[c] \in {"confirm", "transport"}

\* A new call takes the lowest slot that holds no live call.
FreeSlot(c) ==
    /\ ~InFlight(c)
    /\ \A d \in Calls : d < c => InFlight(d)

\* createMessage from its call to its first await: getModel, getNewMessages,
\* then either prepareRequestData and the dialog, or requestData and the
\* transport call.
StartTurn(c, sp, conv) ==
    LET new == getNewMessages(cachedMessages, conv)
        confirm == options.showConfirmationDialog
    IN  /\ FreeSlot(c)
        /\ systemPrompt' = [systemPrompt EXCEPT ![c] = sp]
        /\ messages' = [messages EXCEPT ![c] = conv]
        /\ newMessages' = [newMessages EXCEPT ![c] = new]
        /\ outcome' = [outcome EXCEPT ![c] = Pending]
        /\ pc' = [pc EXCEPT ![c] = IF confirm THEN "confirm" ELSE "transport"]
        /\ request' = [request EXCEPT ![c] =
               IF confirm THEN NoRequest
               ELSE BuildRequest(options, cachedMessages, sp, new, ToolList)]
        /\ hist' = [hist EXCEPT ![c] =
               [ cacheAtStart |-> cachedMessages,
                 priorAtSend |-> IF confirm THEN <<>> ELSE cachedMessages,
                 transportCalls |-> IF confirm THEN 0 ELSE 1,
                 commits |-> 0,
                 logs |-> 0,
                 dialog |-> "",
                 raised |-> "",
                 retry |-> lastFailed.failed /\ conv = latestConv,
                 failedNew |-> IF lastFailed.failed /\ conv = latestConv
                               THEN lastFailed.new ELSE <<>>,
                 failedPrompt |-> IF lastFailed.failed /\ conv = latestConv
                                  THEN lastFailed.prompt ELSE "",
                 failedRequest |-> IF lastFailed.failed /\ conv = latestConv
                                   THEN lastFailed.request ELSE NoRequest ]]
        /\ latestConv' = conv
        /\ extending' = (extending /\ IsPrefix(latestConv, conv))
        /\ lastFailed' = NotFailed
        /\ UNCHANGED << apiProvider, handler, options, cachedMessages, committedCount >>

\* ConfirmProceed that puts the marker on the stored message objects themselves
\* instead of on copies: the cached messages and the caller's array, which
\* share those objects, come out marked.
ConfirmProceed_MarksInPlace(c) ==
    LET prepared == prepareCachedMessages(cachedMessages, newMessages[c])
    IN  /\ pc[c] = "confirm"
        /\ pc' = [pc EXCEPT ![c] = "transport"]
        /\ request' = [request EXCEPT ![c] =
               BuildRequest(options, cachedMessages, systemPrompt[c], newMessages[c],
                            ToolList)]
        /\ cachedMessages' = SubSeq(prepared, 1, Len(cachedMessages))
        /\ newMessages' = [newMessages EXCEPT ![c] =
               SubSeq(prepared, Len(cachedMessages) + 1, Len(prepared))]
        /\ messages' = [messages EXCEPT ![c] =
               [i \in DOMAIN messages[c] |->
                   IF i > Len(cachedMessages) THEN prepared[i] ELSE messages[c][i]]]
        /\ hist' = [hist EXCEPT ![c].priorAtSend = cachedMessages,
                                ![c].transportCalls = @ + 1,
                                ![c].dialog = "Proceed"]
        /\ UNCHANGED << apiProvider, handler, options, systemPrompt, outcome, latestConv,
                        extending, lastFailed, committedCount >>

\* The dialog resolved with "Proceed": requestData is built and the transport
\* call is made.
ConfirmProceed(c) ==
    /\ pc[c] = "confirm"
    /\ pc' = [pc EXCEPT ![c] = "transport"]
    /\ request' = [request EXCEPT ![c] =
           BuildRequest(options, cachedMessages, systemPrompt[c], newMessages[c], ToolList)]
    /\ hist' = [hist EXCEPT ![c].priorAtSend = cachedMessages,
                            ![c].transportCalls = @ + 1,
                            ![c].dialog = "Proceed"]
    /\ UNCHANGED << apiProvider, handler, options, cachedMessages, systemPrompt, messages, newMessages,
                    outcome, latestConv, extending, lastFailed, committedCount >>

\* ConfirmDecline that throws on "Cancel" only and goes on to the transport
\* call when the dialog is dismissed.
ConfirmDecline_OnlyOnCancel(c, result) ==
    /\ pc[c] = "confirm"
    /\ result # "Proceed"
    /\ pc' = [pc EXCEPT ![c] = IF result = "Cancel" THEN "done" ELSE "transport"]
    /\ outcome' = [outcome EXCEPT ![c] =
           IF result = "Cancel" THEN Thrown(CancelError) ELSE Pending]
    /\ request' = [request EXCEPT ![c] =
           IF result = "Cancel" THEN NoRequest
           ELSE BuildRequest(options, cachedMessages, systemPrompt[c],
                             newMessages[c], ToolList)]
    /\ lastFailed' = IF result = "Cancel" THEN Failed(c) ELSE NotFailed
    /\ hist' = [hist EXCEPT ![c].dialog = result,
                            ![c].priorAtSend = cachedMessages,
                            ![c].transportCalls =
                                IF result = "Cancel" THEN @ ELSE @ + 1]
    /\ UNCHANGED << apiProvider, handler, options, cachedMessages, systemPrompt, messages, newMessages,
                    latestConv, extending, committedCount >>

\* The dialog resolved with anything else ("Cancel", or dismissed): throw.
ConfirmDecline(c, result) ==
    /\ pc[c] = "confirm"
    /\ result # "Proceed"
    /\ pc' = [pc EXCEPT ![c] = "done"]
    /\ outcome' = [outcome EXCEPT ![c] = Thrown(CancelError)]
    /\ lastFailed' = Failed(c)
    /\ hist' = [hist EXCEPT ![c].dialog = result]
    /\ UNCHANGED << apiProvider, handler, options, cachedMessages, systemPrompt, messages, newMessages,
                    request, latestConv, extending, committedCount >>

\* TransportSucceed that commits before logging and again after it.
TransportSucceed_CommitsTwice(c) ==
    /\ pc[c] = "transport"
    /\ cachedMessages' =
           updateCachedMessages(updateCachedMessages(cachedMessages, newMessages[c]),
                                newMessages[c])
    /\ committedCount' = committedCount + 2 * Len(newMessages[c])
    /\ pc' = [pc EXCEPT ![c] = "done"]
    /\ outcome' = [outcome EXCEPT ![c] = Returned(Response)]
    /\ hist' = [hist EXCEPT ![c].commits = @ + 2, ![c].logs = @ + 1]
    /\ lastFailed' = NotFailed
    /\ UNCHANGED << apiProvider, handler, options, systemPrompt, messages,
                    newMessages, request, latestConv, extending >>

\* TransportSucceed that commits what was sent for the new messages, markers
\* included, instead of newMessages.
TransportSucceed_CommitsSent(c) ==
    /\ pc[c] = "transport"
    /\ cachedMessages' =
           updateCachedMessages(cachedMessages,
                                slice(request[c].messages, Len(hist[c].priorAtSend)))
    /\ committedCount' = committedCount + Len(newMessages[c])
    /\ pc' = [pc EXCEPT ![c] = "done"]
    /\ outcome' = [outcome EXCEPT ![c] = Returned(Response)]
    /\ hist' = [hist EXCEPT ![c].commits = @ + 1, ![c].logs = @ + 1]
    /\ lastFailed' = NotFailed
    /\ UNCHANGED << apiProvider, handler, options, systemPrompt, messages,
                    newMessages, request, latestConv, extending >>

\* The transport promise fulfilled: logApiRequest, updateCachedMessages, return.
TransportSucceed(c) ==
    /\ pc[c] = "transport"
    /\ cachedMessages' = updateCachedMessages(cachedMessages, newMessages[c])
    /\ committedCount' = committedCount + Len(newMessages[c])
    /\ pc' = [pc EXCEPT ![c] = "done"]
    /\ outcome' = [outcome EXCEPT ![c] = Returned(Response)]
    /\ hist' = [hist EXCEPT ![c].commits = @ + 1, ![c].logs = @ + 1]
    /\ lastFailed' = NotFailed
    /\ UNCHANGED << apiProvider, handler, options, systemPrompt, messages, newMessages, request,
                    latestConv, extending >>

\* TransportFail that commits the new messages before it rethrows.
TransportFail_Commits(c, e) ==
    /\ pc[c] = "transport"
    /\ cachedMessages' = updateCachedMessages(cachedMessages, newMessages[c])
    /\ committedCount' = committedCount + Len(newMessages[c])
    /\ pc' = [pc EXCEPT ![c] = "done"]
    /\ outcome' = [outcome EXCEPT ![c] = Thrown(e)]
    /\ lastFailed' = Failed(c)
    /\ hist' = [hist EXCEPT ![c].raised = e, ![c].commits = @ + 1]
    /\ UNCHANGED << apiProvider, handler, options, systemPrompt, messages, newMessages, request,
                    latestConv, extending >>

\* TransportFail that issues the request once more before it gives up.
TransportFail_Retries(c, e) ==
    /\ pc[c] = "transport"
    /\ pc' = [pc EXCEPT ![c] = IF hist[c].transportCalls >= 2 THEN "done" ELSE "transport"]
    /\ outcome' = [outcome EXCEPT ![c] =
           IF hist[c].transportCalls >= 2 THEN Thrown(e) ELSE Pending]
    /\ lastFailed' = IF hist[c].transportCalls >= 2 THEN Failed(c) ELSE NotFailed
    /\ hist' = [hist EXCEPT ![c].raised = e,
                            ![c].transportCalls = IF @ >= 2 THEN @ ELSE @ + 1]
    /\ UNCHANGED << apiProvider, handler, options, cachedMessages, systemPrompt, messages, newMessages,
                    request, latestConv, extending, committedCount >>

\* The transport promise rejected with e: the await rethrows it.
TransportFail(c, e) ==
    /\ pc[c] = "transport"
    /\ pc' = [pc EXCEPT ![c] = "done"]
    /\ outcome' = [outcome EXCEPT ![c] = Thrown(e)]
    /\ lastFailed' = Failed(c)
    /\ hist' = [hist EXCEPT ![c].raised = e]
    /\ UNCHANGED << apiProvider, handler, options, cachedMessages, systemPrompt, messages, newMessages,
                    request, latestConv, extending, committedCount >>

\* One call at a time: a turn starts only when no other call is live.
NoneInFlight == \A d \in Calls : ~InFlight(d)

\* createMessage called by a caller that awaits each call before the next.
SequentialStart(c, sp, conv) == NoneInFlight /\ StartTurn(c, sp, conv)

Next ==
    \/ \E c \in Calls, sp \in SystemPrompts, conv \in CallerConversations(latestConv) :
           SequentialStart(c, sp, conv)
    \/ \E c \in Calls : ConfirmProceed(c)
    \/ \E c \in Calls, r \in DialogResults : ConfirmDecline(c, r)
    \/ \E c \in Calls : TransportSucceed(c)
    \/ \E c \in Calls, e \in TransportErrors : TransportFail(c, e)

Spec == Init /\ [][Next]_vars

\* The factory on its own: a configuration comes in, one of the two copies of
\* buildApiHandler constructs the handler from it.
NotBuilt == [variant |-> "none", by |-> "none"]

InitFactory ==
    /\ apiProvider \in ProviderIds
    /\ handler = NotBuilt
    /\ options \in [ apiModelId : ApiModelIds, showConfirmationDialog : BOOLEAN ]
    /\ cachedMessages = <<>>
    /\ pc = [c \in Calls |-> "idle"]
    /\ systemPrompt = [c \in Calls |-> ""]
    /\ messages = [c \in Calls |-> <<>>]
    /\ newMessages = [c \in Calls |-> <<>>]
    /\ request = [c \in Calls |-> NoRequest]
    /\ outcome = [c \in Calls |-> Pending]
    /\ hist = [c \in Calls |-> NoHist]
    /\ latestConv = <<>>
    /\ extending = TRUE
    /\ lastFailed = NotFailed
    /\ committedCount = 0

handlerVars ==
    << options, cachedMessages, pc, systemPrompt, messages, newMessages, request,
       outcome, hist, latestConv, extending, lastFailed, committedCount >>

BuildApiHandler ==
    /\ handler = NotBuilt
    /\ handler' = [variant |-> buildApiHandler(apiProvider), by |-> "buildApiHandler"]
    /\ UNCHANGED << apiProvider, handlerVars >>

BuildApiHandlerAnthropicOnly ==
    /\ handler = NotBuilt
    /\ handler' = [variant |-> buildApiHandlerAnthropicOnly(apiProvider),
                   by |-> "buildApiHandlerAnthropicOnly"]
    /\ UNCHANGED << apiProvider, handlerVars >>

NextFactory == BuildApiHandler \/ BuildApiHandlerAnthropicOnly

SpecFactory == InitFactory /\ [][NextFactory]_vars

\* createMessage called while another call on the same handler may be awaiting
\* its dialog or its transport call: nothing in createMessage excludes it.
\* Each slot holds one call here: a first call, and a second one made while the
\* first is live.
OverlappingStart(c, sp, conv) == pc[c] = "idle" /\ StartTurn(c, sp, conv)

NextOverlap ==
    \/ \E c \in Calls, sp \in SystemPrompts, conv \in CallerConversations(latestConv) :
           OverlappingStart(c, sp, conv)
    \/ \E c \in Calls : ConfirmProceed(c)
    \/ \E c \in Calls, r \in DialogResults : ConfirmDecline(c, r)
    \/ \E c \in Calls : TransportSucceed(c)
    \/ \E c \in Calls, e \in TransportErrors : TransportFail(c, e)

SpecOverlap == Init /\ [][NextOverlap]_vars

----------------------------------------------------------------------------
\* Properties.

\* The part of conv after its first n messages, by position.
SuffixFrom(conv, n) == [i \in 1..(Len(conv) - n) |-> conv[n + i]]

\* C1: whenever the CacheState recorded when a call was made is a prefix of the
\* conversation passed to it, the call's newMessages are exactly the messages of
\* the conversation after that prefix, taken by position, and CacheState still
\* has its value of before the diff until the call's transport call settles.
C1_DiffIsSuffix ==
    \A c \in Calls :
        (pc[c] # "idle" /\ IsPrefix(hist[c].cacheAtStart, messages[c])) =>
            /\ newMessages[c] = SuffixFrom(messages[c], Len(hist[c].cacheAtStart))
            /\ InFlight(c) => cachedMessages = hist[c].cacheAtStart

\* A call made with a non-empty CacheState that is a proper prefix of the
\* conversation, so that the diff is a non-empty proper suffix.
C1_Witness ==
    \E c \in Calls :
        /\ InFlight(c)
        /\ Len(hist[c].cacheAtStart) >= 1
        /\ IsPrefix(hist[c].cacheAtStart, messages[c])
        /\ Len(messages[c]) > Len(hist[c].cacheAtStart)
        /\ Len(newMessages[c]) >= 1

\* The outcomes createMessage has in the code; none of them is a
\* precondition-violation error.
CodeErrors == TransportErrors \cup {CancelError}

\* C2: a call whose conversation is shorter than the CacheState it was made with
\* has ended by throwing a precondition-violation error, has made no transport
\* call, and has left CacheState as it was.
C2_ShorterIsHardError ==
    \A c \in Calls :
        (pc[c] # "idle" /\ Len(messages[c]) < Len(hist[c].cacheAtStart)) =>
            /\ pc[c] = "done"
            /\ outcome[c].kind = "throw"
            /\ outcome[c].error \notin CodeErrors
            /\ hist[c].transportCalls = 0
            /\ request[c] = NoRequest
            /\ cachedMessages = hist[c].cacheAtStart

\* C3: when every conversation so far extended the one before it (turns do not
\* overlap in Spec), CacheState is a prefix of the latest conversation.
C3_PrefixInvariant ==
    extending => IsPrefix(cachedMessages, latestConv)

\* A turn over a conversation that extends a non-empty CacheState has thrown,
\* after an earlier turn committed: CacheState is a proper prefix.
C3_Witness ==
    /\ extending
    /\ Len(cachedMessages) >= 1
    /\ Len(latestConv) > Len(cachedMessages)
    /\ \E c \in Calls : pc[c] = "done" /\ outcome[c].kind = "throw"

\* C4: in every step CacheState keeps its earlier contents as a prefix (so its
\* length never decreases), and before and after the step its length is the sum
\* of the message counts of the commits made so far (zero at construction).
C4_AppendOnly ==
    [][ /\ IsPrefix(cachedMessages, cachedMessages')
        /\ Len(cachedMessages) = committedCount
        /\ Len(cachedMessages') = committedCount' ]_vars

\* A second commit has appended messages to a non-empty CacheState.
C4_Witness ==
    \E c \in Calls :
        /\ pc[c] = "done"
        /\ hist[c].commits = 1
        /\ Len(hist[c].cacheAtStart) >= 1
        /\ Len(cachedMessages) > Len(hist[c].cacheAtStart)

\* A message has a cache marker on one of its blocks, on all of them.
HasMark(m) ==
    m.content.isArray /\
    \E i \in DOMAIN m.content.blocks : m.content.blocks[i].cache_control = Ephemeral

AllMarked(m) ==
    m.content.isArray /\
    \A i \in DOMAIN m.content.blocks : m.content.blocks[i].cache_control = Ephemeral

\* The positions of the user-role messages of a sequence.
UserPositions(s) == { i \in 1..Len(s) : s[i].role = "user" }

\* out is input with the marker on all blocks of its last user message and on
\* no block of any other message, the other messages being those of input.
MarkedOnLastUserOnly(input, out) ==
    /\ Len(out) = Len(input)
    /\ \A i \in 1..Len(input) :
           IF i \in UserPositions(input) /\ \A j \in UserPositions(input) : j <= i
           THEN AllMarked(out[i]) /\ out[i].role = "user"
           ELSE out[i] = input[i] /\ ~HasMark(out[i])
    /\ UserPositions(input) = {} => out = input

\* C5: the messages of every request built are CacheState followed by the new
\* messages, with the cache marker on all blocks of the last user-role message
\* of that sequence and on no block of any other message, and with no marker
\* at all when the sequence has no user-role message.
C5_MarkerOnLastUser ==
    \A c \in Calls :
        request[c] # NoRequest =>
            MarkedOnLastUserOnly(hist[c].priorAtSend \o newMessages[c],
                                 request[c].messages)

\* A request in flight whose last user message is the last message of the
\* cached part and is followed by new messages ending in an assistant message.
C5_Witness ==
    \E c \in Calls :
        /\ pc[c] = "transport"
        /\ Len(hist[c].priorAtSend) >= 1
        /\ Len(newMessages[c]) >= 1
        /\ newMessages[c][Len(newMessages[c])].role = "assistant"
        /\ HasMark(request[c].messages[Len(hist[c].priorAtSend)])

\* C6: a request that goes through the plain path carries the system prompt as
\* an unmarked text block, its messages are exactly the call's newMessages, and
\* none of its messages carries a cache marker.
C6_PlainSendsNewOnly ==
    \A c \in Calls :
        request[c].path = PlainPath =>
            /\ request[c].system =
                   [text |-> systemPrompt[c], type |-> "text", cache_control |-> NoMark]
            /\ request[c].messages = newMessages[c]
            /\ \A i \in 1..Len(request[c].messages) : ~HasMark(request[c].messages[i])

\* What C7 says of a request: the path is chosen by the capability of the
\* resolved model; on the caching path the system prompt is one marked text
\* block, the messages are the annotated sequence and the model's beta header
\* is attached when it has one; the plain path carries no header.
ShapeByCapability(c) ==
    LET info == anthropicModels[request[c].model]
    IN  /\ request[c].model = getModel(options).id
        /\ IF info.supportsCaching
           THEN /\ request[c].path = CachingPath
                /\ request[c].system =
                       [text |-> systemPrompt[c], type |-> "text",
                        cache_control |-> Ephemeral]
                /\ request[c].messages =
                       prepareCachedMessages(hist[c].priorAtSend, newMessages[c])
                /\ request[c].headers = info.requiredBetaHeader
           ELSE /\ request[c].path = PlainPath
                /\ request[c].headers = "undefined"

\* C7 as stated: every turn, once over, has made exactly one transport call,
\* and a turn makes none before and never more than one; every request has the
\* shape of the model's capability.
C7_OneCallEveryTurn ==
    \A c \in Calls :
        /\ pc[c] = "done" => hist[c].transportCalls = 1
        /\ hist[c].transportCalls <= 1
        /\ request[c] # NoRequest => ShapeByCapability(c)

\* C7 amended: every turn that was not cancelled at the confirmation step has
\* made exactly one transport call once it is over, a cancelled turn none, and a
\* turn never more than one; every request has the shape of the model's
\* capability.
C7_OneCallUnlessCancelled ==
    \A c \in Calls :
        /\ pc[c] = "done" =>
               hist[c].transportCalls = IF outcome[c] = Thrown(CancelError) THEN 0 ELSE 1
        /\ pc[c] = "transport" => hist[c].transportCalls = 1 /\ request[c] # NoRequest
        /\ pc[c] = "confirm" => hist[c].transportCalls = 0 /\ request[c] = NoRequest
        /\ hist[c].transportCalls <= 1
        /\ request[c] # NoRequest => ShapeByCapability(c)

\* A turn for the opus model (caching, no beta header) has returned after its
\* one call on the caching path.
C7_Witness ==
    \E c \in Calls :
        /\ pc[c] = "done"
        /\ outcome[c].kind = "return"
        /\ hist[c].transportCalls = 1
        /\ request[c].model = "claude-3-opus-20240229"
        /\ request[c].path = CachingPath
        /\ Len(request[c].messages) >= 1

\* C8: a turn whose transport call was rejected has thrown that same rejection,
\* has made that one transport call only, has not committed, and CacheState is
\* what it was when the call was made.
C8_TransportFailurePropagates ==
    \A c \in Calls :
        hist[c].raised # "" =>
            /\ pc[c] = "done"
            /\ outcome[c] = Thrown(hist[c].raised)
            /\ hist[c].transportCalls = 1
            /\ hist[c].commits = 0
            /\ cachedMessages = hist[c].cacheAtStart

\* The transport rejected a turn that had new messages to commit.
C8_Witness ==
    \E c \in Calls :
        /\ hist[c].raised \in TransportErrors
        /\ Len(newMessages[c]) >= 1
        /\ Len(hist[c].cacheAtStart) >= 1

\* C9: a turn whose confirmation dialog resolved with anything but "Proceed"
\* has thrown the cancellation error, which is none of the transport's errors,
\* has made no transport call and built no request, has not committed, and
\* CacheState is what it was when the call was made.
C9_CancelIsDistinctAndInert ==
    \A c \in Calls :
        hist[c].dialog \notin {"", "Proceed"} =>
            /\ pc[c] = "done"
            /\ outcome[c] = Thrown(CancelError)
            /\ outcome[c].error \notin TransportErrors
            /\ hist[c].transportCalls = 0
            /\ request[c] = NoRequest
            /\ hist[c].commits = 0
            /\ cachedMessages = hist[c].cacheAtStart

\* The dialog was dismissed on a turn that had new messages to send.
C9_Witness ==
    \E c \in Calls :
        /\ hist[c].dialog = "undefined"
        /\ options.showConfirmationDialog
        /\ Len(newMessages[c]) >= 1

\* C10: a turn that retries the failed turn before it with the same
\* conversation computes the same newMessages as the failed attempt; when the
\* CacheState it started from is a prefix of the conversation and the retry
\* returns, it has committed once and CacheState is the conversation itself,
\* message for message.
C10_NoDoubleCommitOnRetry ==
    \A c \in Calls :
        (pc[c] # "idle" /\ hist[c].retry) =>
            /\ newMessages[c] = hist[c].failedNew
            /\ ( /\ pc[c] = "done"
                 /\ outcome[c].kind = "return"
                 /\ IsPrefix(hist[c].cacheAtStart, messages[c]) ) =>
                   /\ hist[c].commits = 1
                   /\ cachedMessages = messages[c]
                   /\ Len(cachedMessages) = Len(hist[c].cacheAtStart) + Len(hist[c].failedNew)

\* A retry with new messages on top of a non-empty CacheState has returned.
C10_Witness ==
    \E c \in Calls :
        /\ hist[c].retry
        /\ pc[c] = "done"
        /\ outcome[c].kind = "return"
        /\ Len(hist[c].cacheAtStart) >= 1
        /\ Len(hist[c].failedNew) >= 1
        /\ IsPrefix(hist[c].cacheAtStart, messages[c])

\* C12: a turn that retries a failed turn with the same conversation and system
\* prompt, no commit having come between, hands the transport a request
\* identical to the failed turn's; and while a request is in flight CacheState
\* is what it was when the call was made and the conversation the call holds
\* is the one the caller supplied.
C12_RebuildIsIdentical ==
    \A c \in Calls :
        /\ ( /\ hist[c].retry
             /\ systemPrompt[c] = hist[c].failedPrompt
             /\ request[c] # NoRequest
             /\ hist[c].failedRequest # NoRequest ) =>
               request[c] = hist[c].failedRequest
        /\ pc[c] = "transport" =>
               /\ cachedMessages = hist[c].cacheAtStart
               /\ messages[c] = latestConv

\* A retry of a turn whose request was rejected has its own request in flight,
\* on top of a non-empty CacheState and with new messages.
C12_Witness ==
    \E c \in Calls :
        /\ pc[c] = "transport"
        /\ hist[c].retry
        /\ hist[c].failedRequest # NoRequest
        /\ Len(hist[c].cacheAtStart) >= 1
        /\ Len(newMessages[c]) >= 1

\* The identifier C13 expects getModel to resolve to.
ResolvedId ==
    IF options.apiModelId \in DOMAIN anthropicModels
    THEN options.apiModelId ELSE anthropicDefaultModelId

OwnVariant(by) ==
    IF by = "buildApiHandler"
    THEN [anthropic |-> "AnthropicHandler", openai |-> "OpenAiHandler"]
    ELSE [anthropic |-> "AnthropicHandler"]

\* C14: whatever the provider identifier, buildApiHandler returns a handler: the
\* variant of the identifier's own branch when the switch has one, and the
\* default variant, the Anthropic handler, for every other identifier (one the
\* switch does not name, an absent one, and "ollama", which shares the default
\* branch).
C14_FactoryFallsBackToDefault ==
    handler # NotBuilt =>
        /\ handler.variant \in {"AnthropicHandler", "OpenAiHandler"}
        /\ IF apiProvider \in DOMAIN OwnVariant(handler.by)
           THEN handler.variant = OwnVariant(handler.by)[apiProvider]
           ELSE handler.variant = "AnthropicHandler"

\* buildApiHandler has returned the Anthropic handler for an identifier its
\* switch does not name.
C14_Witness ==
    /\ handler.by = "buildApiHandler"
    /\ apiProvider = "unrecognized"
    /\ handler.variant = "AnthropicHandler"

\* The messages of a call's conversation that lie after the length CacheState
\* had when the call was made.
DiffAtStart(c) ==
    IF Len(hist[c].cacheAtStart) <= Len(messages[c])
    THEN SuffixFrom(messages[c], Len(hist[c].cacheAtStart))
    ELSE <<>>

\* C15: a turn that has returned has made its one transport call, logged once
\* and committed exactly once, and CacheState is its value at the call followed
\* by the new messages computed then, unmarked; a turn that has not returned
\* has not committed.
C15_CommitOncePerSuccess ==
    \A c \in Calls :
        /\ (pc[c] = "done" /\ outcome[c].kind = "return") =>
               /\ hist[c].transportCalls = 1
               /\ hist[c].logs = 1
               /\ hist[c].commits = 1
               /\ newMessages[c] = DiffAtStart(c)
               /\ cachedMessages = hist[c].cacheAtStart \o DiffAtStart(c)
        /\ outcome[c].kind # "return" => hist[c].commits = 0

\* A turn has returned whose request carried a marker inside the new messages,
\* so that what was sent differs from what was committed.
C15_Witness ==
    \E c \in Calls :
        /\ pc[c] = "done"
        /\ outcome[c].kind = "return"
        /\ Len(hist[c].cacheAtStart) >= 1
        /\ Len(newMessages[c]) >= 1
        /\ HasMark(request[c].messages[Len(request[c].messages)])
        /\ request[c].messages # hist[c].cacheAtStart \o newMessages[c]

\* A turn over conversation C has returned, having started from a CacheState
\* that was a prefix of C.
ReturnedFromPrefix(c) ==
    /\ pc[c] = "done"
    /\ outcome[c].kind = "return"
    /\ IsPrefix(hist[c].cacheAtStart, messages[c])

\* C16: after such a turn CacheState is C itself, and when the next turn is
\* made with a conversation that extends C, its newMessages are the messages
\* after the first Len(C) ones.
C16_CacheEqualsConversation ==
    [][ \A c \in Calls :
          /\ ReturnedFromPrefix(c) => cachedMessages = messages[c]
          /\ ( /\ ReturnedFromPrefix(c)
               /\ pc'[c] # "done"
               /\ IsPrefix(messages[c], messages'[c]) ) =>
                 newMessages'[c] = SuffixFrom(messages'[c], Len(messages[c])) ]_vars

\* A second turn has returned after appending new messages to the conversation
\* an earlier turn had committed.
C16_Witness ==
    \E c \in Calls :
        /\ ReturnedFromPrefix(c)
        /\ extending
        /\ Len(hist[c].cacheAtStart) >= 1
        /\ Len(messages[c]) > Len(hist[c].cacheAtStart)
        /\ cachedMessages = messages[c]

\* out is the marked form of message m: same role, block-sequence content; for
\* a bare string one marked text block holding it, else the blocks of m in
\* their order, each with its type and text and with the marker.
IsMarkedFormOf(out, m) ==
    /\ out.role = m.role
    /\ out.content.isArray
    /\ IF m.content.isArray
       THEN /\ Len(out.content.blocks) = Len(m.content.blocks)
            /\ \A j \in 1..Len(m.content.blocks) :
                   /\ out.content.blocks[j].type = m.content.blocks[j].type
                   /\ out.content.blocks[j].text = m.content.blocks[j].text
                   /\ out.content.blocks[j].cache_control = Ephemeral
       ELSE /\ Len(out.content.blocks) = 1
            /\ out.content.blocks[1].type = "text"
            /\ out.content.blocks[1].text = m.content.text
            /\ out.content.blocks[1].cache_control = Ephemeral

\* C17: in every request built, the message at the position of the last user
\* message, and every message that carries a marker, is the marked form of the
\* message it was made from: a bare string has become one marked text block,
\* a block sequence keeps its blocks in order, and the role is the same.
C17_MarkedMessageIsBlockForm ==
    \A c \in Calls :
        request[c] # NoRequest =>
            LET input == hist[c].priorAtSend \o newMessages[c]
                out == request[c].messages
            IN  /\ Len(out) = Len(input)
                /\ \A i \in 1..Len(input) :
                       ( \/ HasMark(out[i])
                         \/ /\ input[i].role = "user"
                            /\ \A j \in (i + 1)..Len(input) : input[j].role # "user" ) =>
                           IsMarkedFormOf(out[i], input[i])

\* A request in flight whose marked message was a bare string, sent after a
\* request whose marked message had two blocks of different types.
C17_Witness ==
    \E c \in Calls :
        /\ pc[c] = "transport"
        /\ Len(hist[c].priorAtSend) >= 1
        /\ hist[c].priorAtSend[1].content.isArray
        /\ Len(hist[c].priorAtSend[1].content.blocks) = 2
        /\ hist[c].priorAtSend[1].role = "user"
        /\ Len(newMessages[c]) >= 1
        /\ ~newMessages[c][Len(newMessages[c])].content.isArray
        /\ HasMark(request[c].messages[Len(request[c].messages)])

\* A message with the cache markers taken off its blocks.
Unmark(m) ==
    IF m.content.isArray
    THEN [m EXCEPT !.content.blocks =
             [j \in DOMAIN m.content.blocks |->
                 [m.content.blocks[j] EXCEPT !.cache_control = NoMark]]]
    ELSE m

\* A message with a bare string content put as one text block.
AsBlocks(m) ==
    IF m.content.isArray THEN m
    ELSE [m EXCEPT !.content = ArrayContent(<<TextBlock(m.content.text)>>)]

\* A request on the caching path of a call whose conversation has the
\* CacheState of the call as a prefix.
CachedShapeOnPrefix(c) ==
    /\ request[c] # NoRequest
    /\ request[c].path = CachingPath
    /\ IsPrefix(hist[c].cacheAtStart, messages[c])

\* C18 as stated: the messages of such a request, markers taken off, are the
\* conversation of the call, message for message.
C18_SentIsConversation ==
    \A c \in Calls :
        CachedShapeOnPrefix(c) =>
            [i \in DOMAIN request[c].messages |-> Unmark(request[c].messages[i])]
                = messages[c]

\* C18 amended: the messages of such a request, markers taken off, are the
\* conversation of the call, message for message, the marked message being the
\* conversation's with a bare string content put as one text block.
C18_SentIsConversationInBlockForm ==
    \A c \in Calls :
        CachedShapeOnPrefix(c) =>
            /\ Len(request[c].messages) = Len(messages[c])
            /\ \A i \in 1..Len(messages[c]) :
                   Unmark(request[c].messages[i]) =
                       IF HasMark(request[c].messages[i])
                       THEN AsBlocks(messages[c][i]) ELSE messages[c][i]

\* A request on the caching path carries cached and new messages, the marked
\* one made from a bare string.
C18_Witness ==
    \E c \in Calls :
        /\ pc[c] = "transport"
        /\ CachedShapeOnPrefix(c)
        /\ Len(hist[c].cacheAtStart) >= 1
        /\ Len(newMessages[c]) >= 1
        /\ \E i \in 1..Len(messages[c]) :
               HasMark(request[c].messages[i]) /\ ~messages[c][i].content.isArray

Unmarked(s) == \A i \in 1..Len(s) : ~HasMark(s[i])

\* C19: no message of CacheState, of the conversations the caller supplied or of
\* a call's newMessages carries a cache marker; in every request built only the
\* last user message carries one, every other message being sent as it is
\* stored.
C19_NoMarkerInState ==
    /\ Unmarked(cachedMessages)
    /\ Unmarked(latestConv)
    /\ \A c \in Calls :
           /\ Unmarked(messages[c])
           /\ Unmarked(newMessages[c])
           /\ request[c] # NoRequest =>
                  LET input == hist[c].priorAtSend \o newMessages[c]
                      out == request[c].messages
                  IN  /\ Len(out) = Len(input)
                      /\ \A i \in 1..Len(out) :
                             IF HasMark(out[i])
                             THEN \A j \in (i + 1)..Len(out) : out[j].role # "user"
                             ELSE out[i] = input[i]

\* On a later turn the user message that was marked on the turn that cached it
\* is sent unmarked, and the new last user message is marked.
C19_Witness ==
    \E c \in Calls :
        /\ pc[c] = "transport"
        /\ Len(hist[c].priorAtSend) >= 1
        /\ hist[c].priorAtSend[Len(hist[c].priorAtSend)].role = "user"
        /\ Len(newMessages[c]) >= 1
        /\ ~HasMark(request[c].messages[Len(hist[c].priorAtSend)])
        /\ HasMark(request[c].messages[Len(request[c].messages)])

\* C11: with calls that overlap, once no call is live and every conversation
\* extended the one before it, CacheState is a prefix of the latest conversation
\* and holds no more messages than were supplied (none committed twice).
C11_OverlapKeepsPrefix ==
    (NoneInFlight /\ extending) =>
        /\ IsPrefix(cachedMessages, latestConv)
        /\ committedCount <= Len(latestConv)

====
